---- MODULE Spec2Model ----
(***************************************************************************)
(* Navigation core of the walkers map widget: Position / Pixel /           *)
(* AdjustedPosition arithmetic (units.rs), the Center state machine        *)
(* (center.rs), MapMemory and its zoom mutators (map_memory.rs), the       *)
(* Projector (projector.rs) and the per-frame gesture handling of Map and  *)
(* LocalMap (maps/global_map.rs, maps/local_map.rs).                       *)
(*                                                                         *)
(* Numbers.  The code computes in f64 (positions, bitmap pixels) and f32   *)
(* (screen vectors, inertia amount).  The model uses integers:             *)
(*   - a Global Position is (lon, lat), lon in units of 1/LonDen degree    *)
(*     and lat in units of 1/LatDen degree;                                *)
(*   - a Local Position is (x, y) in units of 1/LocalDen local unit;       *)
(*   - mercator-normalized coordinates are in units of 1/NormDen;          *)
(*   - a screen vector / pixel offset (egui Vec2, Pos2, the offset of an   *)
(*     AdjustedPosition) is in units of 1/PxDen pixel;                     *)
(*   - a bitmap Pixel at zoom z is in units of 1/PixelUnit(z) pixel: the   *)
(*     bitmap is TILE_SIZE * 2^z pixels wide, so the number of stored      *)
(*     units across the world is about the same at every zoom, as the      *)
(*     relative precision of an f64 is (block floating point);             *)
(*   - zoom is in units of 1/ZoomDen level.                                *)
(* Every product and quotient is rounded to the nearest unit (MulDiv), so  *)
(* a conversion loses what its target grid cannot hold.                    *)
(*                                                                         *)
(* Evaluation order.  TLC computes an operand where it is first used;      *)
(* `CASE v = v -> e` computes v before e, which is the order of the        *)
(* statements in the code and keeps the evaluation shallow.  A value the   *)
(* code binds with `let` and uses more than once is handed on as the       *)
(* operand of the operator that models the statements after it.            *)
(***************************************************************************)
EXTENDS Integers, Sequences, FiniteSets, TLC

\* ------------------------------------------------------------ arithmetic

Abs(a) == IF a < 0 THEN -a ELSE a
Sgn(a) == IF a < 0 THEN -1 ELSE 1

\* g * k when it divides both b and d, g otherwise.
Pow2Step(b, d, g, k) == IF b % (g * k) = 0 /\ d % (g * k) = 0 THEN g * k ELSE g

\* The largest power of two dividing both b and d (up to 2^31).
Pow2Common(b, d) ==
    Pow2Step(b, d,
        Pow2Step(b, d,
            Pow2Step(b, d, Pow2Step(b, d, Pow2Step(b, d, 1, 2^16), 2^8), 2^4),
            2^2),
        2)

\* The digit base for a long multiplication with divisor d: d * base <= 2^30.
DigitBase(d) ==
    IF d <= 2^14 THEN 2^16 ELSE IF d <= 2^22 THEN 2^8
    ELSE IF d <= 2^26 THEN 2^4 ELSE IF d <= 2^28 THEN 2^2 ELSE 2

\* <<q + t / d, t mod d>>: the carry of a partial remainder t into the quotient.
MulDivCarry(q, t, d) == <<q + t \div d, t % d>>

\* One digit of the long multiplication: h is <<q, r>> for the higher digits.
MulDivDigit(h, a, digit, d, base) ==
    MulDivCarry(h[1] * base + (a \div d) * digit, h[2] * base + (a % d) * digit, d)

\* <<q, r>> with a * b = q * d + r and 0 <= r < d, for a >= 0, b >= 0,
\* 0 < d <= 2^29, without forming the product: Horner over b's digits.
RECURSIVE MulDivQR(_, _, _, _)
MulDivQR(a, b, d, base) ==
    IF b = 0 THEN <<0, 0>>
    ELSE MulDivDigit(MulDivQR(a, b \div base, d, base), a, b % base, d, base)

\* The quotient of <<q, r>> rounded to the nearest integer, ties upwards.
MulDivRound(qr, d) == IF qr[2] >= d - qr[2] THEN qr[1] + 1 ELSE qr[1]

\* n * b / d rounded, for n > 0, b > 0, d > 0, after cancelling g from b and d.
MulDivBy(n, b, d, g) ==
    MulDivRound(MulDivQR(n, b \div g, d \div g, DigitBase(d \div g)), d \div g)

\* a * b / d rounded to the nearest integer (ties away from zero); b >= 0,
\* d > 0.
MulDiv(a, b, d) ==
    IF a = 0 \/ b = 0 THEN 0
    ELSE IF b = d THEN a
    ELSE Sgn(a) * MulDivBy(Abs(a), b, d, Pow2Common(b, d))

\* ----------------------------------------------------------------- units

\* src/src/lib.rs:24
TILE_SIZE == 256
\* src/src/lib.rs:37: 2^(16 - zoom) local units per point
LocalRefZoom == 16

\* zoom.rs is not among the sources; its bounds and default come from the
\* specification ("minimum 0, a fixed maximum, e.g. 20") and from lib.rs:37
\* ("at zoom 16 (default)").
MinZoomLevel == 0
MaxZoomLevel == 20
DefaultZoomLevel == 16

ZoomDen == 2^1                      \* zoom is kept in half levels
PxDen == 10^2                       \* screen vectors in 1/100 pixel
LonDen == 10^7                      \* longitude in 1/10,000,000 degree
LatDen == 2 * 10^7                  \* latitude in 1/20,000,000 degree
TopFrac == MaxZoomLevel + 2         \* fraction bits of a bitmap Pixel at zoom 0
NormDen == TILE_SIZE * 2^TopFrac    \* mercator-normalized unit
LocalDen == 2^(TopFrac - LocalRefZoom)

ZoomFloor(zoom) == zoom \div ZoomDen
ZoomCeil(zoom) == (zoom + ZoomDen - 1) \div ZoomDen
\* Stored units per pixel of a bitmap Pixel at this zoom: the bitmap never has
\* more stored units across the world than NormDen.
PixelUnit(zoom) == 2^(TopFrac - ZoomCeil(zoom))
\* 2^(zoom - floor(zoom)) as a fraction: 1, or the rounded square root of 2.
Pow2Frac(zoom) == IF zoom % ZoomDen = 0 THEN <<1, 1>> ELSE <<181, 128>>

Vec(x, y) == [x |-> x, y |-> y]
VZero == Vec(0, 0)
VAdd(a, b) == Vec(a.x + b.x, a.y + b.y)
VSub(a, b) == Vec(a.x - b.x, a.y - b.y)
VNeg(a) == Vec(-a.x, -a.y)

\* A vector times num / den; the vector is computed before it is scaled.
Scale(v, num, den) ==
    CASE v = v -> Vec(MulDiv(v.x, num, den), MulDiv(v.y, num, den))

\* Pixel::from(Vec2) at a zoom: a screen vector on the bitmap grid.
PxToBitmap(v, zoom) == Scale(v, PixelUnit(zoom), PxDen)
\* Pos2::from(Pixel) / Vec2::from(Pixel): a bitmap vector in screen units.
BitmapToPx(b, zoom) == Scale(b, PxDen, PixelUnit(zoom))

\* ------------------------------------------------------------- lib.rs

\* total_pixels(zoom) = 2^zoom * TILE_SIZE, in bitmap units of that zoom.
total_pixels(zoom) ==
    MulDiv(TILE_SIZE * 2^ZoomFloor(zoom) * PixelUnit(zoom),
           Pow2Frac(zoom)[1], Pow2Frac(zoom)[2])

\* local_units_per_point(zoom) = 2^(16 - zoom): stored local units per stored
\* bitmap unit, <<numerator, denominator>>.
local_units_per_point(zoom) ==
    <<((2^LocalRefZoom * LocalDen) \div (2^ZoomFloor(zoom) * PixelUnit(zoom)))
          * Pow2Frac(zoom)[2],
      Pow2Frac(zoom)[1]>>

\* ------------------------------------------------------------ units.rs

\* asinh(tan(lat)) / PI for lat >= 0, by linear interpolation through exact
\* values of the function: <<lat in 1/LatDen degree, value in 2/NormDen>>.
\* The last knot is the latitude where the value is 1 (85.0511... degrees);
\* beyond it the last segment is continued.
MercKnots ==
    << <<0, 0>>, <<200000000, 29978751>>, <<400000000, 60901993>>,
       <<600000000, 93871651>>, <<800000000, 130374637>>,
       <<1000000000, 172716983>>, <<1200000000, 225056672>>,
       <<1400000000, 296567386>>, <<1600000000, 416333301>>,
       <<1701022576, 536870912>> >>

\* The segment of MercKnots holding v in coordinate k (1: latitude, 2: value).
RECURSIVE MercSegment(_, _, _)
MercSegment(v, k, i) ==
    IF i + 1 >= Len(MercKnots) \/ v < MercKnots[i + 1][k] THEN i
    ELSE MercSegment(v, k, i + 1)

\* The value at a on segment i of MercKnots, from coordinate k to coordinate j.
MercInterpolate(a, i, k, j) ==
    MercKnots[i][j]
    + MulDiv(a - MercKnots[i][k], MercKnots[i + 1][j] - MercKnots[i][j],
             MercKnots[i + 1][k] - MercKnots[i][k])

\* lat.to_radians().tan().asinh() / PI, in 2/NormDen.
MercY(lat) ==
    Sgn(lat) * MercInterpolate(Abs(lat), MercSegment(Abs(lat), 1, 1), 1, 2)

\* (v * PI).sinh().atan().to_degrees(), v in 2/NormDen.
MercYInv(v) ==
    Sgn(v) * MercInterpolate(Abs(v), MercSegment(Abs(v), 2, 1), 2, 1)

\* Position::mercator_normalized: x = (1 + lon_rad / PI) / 2,
\* y = (1 - asinh(tan(lat_rad)) / PI) / 2, both in 1/NormDen.
mercator_normalized(pos) ==
    Vec(NormDen \div 2 + MulDiv(pos.x, NormDen \div 2, 180 * LonDen),
        NormDen \div 2 - MercY(pos.y))

\* The inverse with the latitude taken as the longitude is, (lat * 2. - 1.) * PI:
\* the map comes back mirrored at the equator.
MercatorInverseMirrored(n) ==
    CASE n = n ->
         Vec(MulDiv(n.x - NormDen \div 2, 180 * LonDen, NormDen \div 2),
             MercYInv(n.y - NormDen \div 2))

\* The inverse of mercator_normalized (global_bitmap_unproject, units.rs:116-122).
MercatorInverse(n) ==
    CASE n = n ->
         Vec(MulDiv(n.x - NormDen \div 2, 180 * LonDen, NormDen \div 2),
             MercYInv(NormDen \div 2 - n.y))

\* Position::global_bitmap_project
global_bitmap_project(pos, zoom) ==
    Scale(mercator_normalized(pos), total_pixels(zoom), NormDen)

\* Position::local_bitmap_project: (x / units_per_point, -y / units_per_point)
local_bitmap_project(pos, zoom) ==
    Scale(Vec(pos.x, -pos.y), local_units_per_point(zoom)[2],
          local_units_per_point(zoom)[1])

\* Pixel::global_bitmap_unproject
global_bitmap_unproject(px, zoom) ==
    MercatorInverse(Scale(px, NormDen, total_pixels(zoom)))

\* local_bitmap_unproject without the flip of the y axis.
local_bitmap_unproject_unflipped(px, zoom) ==
    Scale(px, local_units_per_point(zoom)[1], local_units_per_point(zoom)[2])

\* Pixel::local_bitmap_unproject: (x * units_per_point, -y * units_per_point)
local_bitmap_unproject(px, zoom) ==
    Scale(Vec(px.x, -px.y), local_units_per_point(zoom)[1],
          local_units_per_point(zoom)[2])

\* floor(log2(n)) for n >= 1.
RECURSIVE Log2Floor(_)
Log2Floor(n) == IF n < 2 THEN 0 ELSE 1 + Log2Floor(n \div 2)

\* (source_tile_size as f64 / TILE_SIZE as f64).log2() as u8 (units.rs:71),
\* for source_tile_size >= TILE_SIZE: the cast drops the fraction.
TileZoomAdjustment(source_tile_size) == Log2Floor(source_tile_size \div TILE_SIZE)

\* What tile_id hands back: a TileId, or the panic of a build that checks
\* integer overflow.
TileId(x, y, zoom) == [panicked |-> FALSE, x |-> x, y |-> y, zoom |-> zoom]
TilePanic == [panicked |-> TRUE, x |-> 0, y |-> 0, zoom |-> 0]

\* 2u32.pow(zoom as u32) where the overflow is not checked: the product wraps
\* to 0 from 2^32 on (units.rs:74).  A u8 zoom of 31 is past every zoom the
\* memory holds and the widest integer of the checker; it counts with them.
number_of_tiles(zoom) == IF zoom <= TopFrac + 8 THEN 2^zoom ELSE 0

\* (v * number_of_tiles).floor() as u32 for v in 1/NormDen (units.rs:75-76):
\* the cast saturates, a negative product gives 0.
TileIndex(v, tiles) == IF v < 0 \/ tiles = 0 THEN 0 ELSE v \div (NormDen \div tiles)

\* The TileId of a normalized position n in the pyramid level zoom
\* (units.rs:74-78).
TileAt(n, zoom) ==
    CASE n = n ->
         TileId(TileIndex(n.x, number_of_tiles(zoom)),
                TileIndex(n.y, number_of_tiles(zoom)), zoom)

\* tile_id taking the display zoom for the pyramid level, whatever the size
\* of the source's tiles.
tile_id_unadjusted(pos, zoom, source_tile_size) ==
    {TileAt(mercator_normalized(pos), zoom)}

\* Position::tile_id: the set of its outcomes.  `zoom -= adjustment` on a u8
\* zoom below the adjustment overflows: a build that checks the overflow
\* panics there, one that does not goes on with the zoom wrapped modulo 2^8.
tile_id(pos, zoom, source_tile_size) ==
    IF zoom >= TileZoomAdjustment(source_tile_size)
    THEN {TileAt(mercator_normalized(pos), zoom - TileZoomAdjustment(source_tile_size))}
    ELSE {TilePanic,
          TileAt(mercator_normalized(pos),
                 zoom - TileZoomAdjustment(source_tile_size) + 2^8)}

\* AdjustedPosition::new
AdjustedPosition(position, offset) == [position |-> position, offset |-> offset]

\* AdjustedPosition::shift with the sign of the shift reversed.
AdjShiftReversed(adj, shift) == [adj EXCEPT !.offset = VSub(adj.offset, shift)]

\* AdjustedPosition::shift: offset + shift
AdjShift(adj, shift) == [adj EXCEPT !.offset = VAdd(adj.offset, shift)]

\* AdjustedPosition::global_unadjusted_position
global_unadjusted_position(adj, zoom) ==
    global_bitmap_unproject(
        VSub(global_bitmap_project(adj.position, zoom), PxToBitmap(adj.offset, zoom)),
        zoom)

\* AdjustedPosition::local_unadjusted_position
local_unadjusted_position(adj, zoom) ==
    local_bitmap_unproject(
        VSub(local_bitmap_project(adj.position, zoom), PxToBitmap(adj.offset, zoom)),
        zoom)

\* zero_offset forgetting the offset without moving the base position.
AdjGlobalZeroOffsetDropped(adj, zoom) ==
    AdjustedPosition(adj.position, VZero)

\* AdjustedPosition::global_zero_offset
AdjGlobalZeroOffset(adj, zoom) ==
    AdjustedPosition(global_unadjusted_position(adj, zoom), VZero)

\* AdjustedPosition::local_zero_offset
AdjLocalZeroOffset(adj, zoom) ==
    AdjustedPosition(local_unadjusted_position(adj, zoom), VZero)

\* ------------------------------------------------------------ center.rs

\* enum Center.  Every variant is a record of the same shape; the fields a
\* variant does not have hold NoPos / VZero / 0.
NoPos == AdjustedPosition(VZero, VZero)
AmountDen == 10^2                   \* inertia amount in hundredths
AmountStart == AmountDen            \* amount: 1.0 (center.rs:47)
AmountStep == 3                     \* amount -= 0.03 (center.rs:78)

MyPosition == [tag |-> "MyPosition", pos |-> NoPos, direction |-> VZero, amount |-> 0]
Exact(pos) == [tag |-> "Exact", pos |-> pos, direction |-> VZero, amount |-> 0]
Moving(pos, direction) ==
    [tag |-> "Moving", pos |-> pos, direction |-> direction, amount |-> 0]
Inertia(pos, direction, amount) ==
    [tag |-> "Inertia", pos |-> pos, direction |-> direction, amount |-> amount]

\* Center::get_adjusted_position: None for MyPosition, Some(pos) otherwise.
HasAdjustedPosition(c) == c.tag # "MyPosition"

\* recalculate_drag giving a coasting map its full amount again on a release.
recalculate_drag_release_restart(c, dragged, drag_delta, drag_stopped, my_position) ==
    IF dragged
    THEN <<Moving(IF HasAdjustedPosition(c) THEN c.pos
                  ELSE AdjustedPosition(my_position, VZero),
                  drag_delta),
           TRUE>>
    ELSE IF drag_stopped
    THEN <<IF c.tag \in {"Moving", "Inertia"}
           THEN Inertia(c.pos, c.direction, AmountStart) ELSE c,
           TRUE>>
    ELSE <<c, FALSE>>

\* recalculate_drag starting the inertia on every release, whatever the variant.
recalculate_drag_release_any(c, dragged, drag_delta, drag_stopped, my_position) ==
    IF dragged
    THEN <<Moving(IF HasAdjustedPosition(c) THEN c.pos
                  ELSE AdjustedPosition(my_position, VZero),
                  drag_delta),
           TRUE>>
    ELSE IF drag_stopped
    THEN <<Inertia(IF HasAdjustedPosition(c) THEN c.pos
                   ELSE AdjustedPosition(my_position, VZero),
                   c.direction, AmountStart),
           TRUE>>
    ELSE <<c, FALSE>>

\* recalculate_drag starting the inertia without the direction of the drag.
recalculate_drag_drop_direction(c, dragged, drag_delta, drag_stopped, my_position) ==
    IF dragged
    THEN <<Moving(IF HasAdjustedPosition(c) THEN c.pos
                  ELSE AdjustedPosition(my_position, VZero),
                  drag_delta),
           TRUE>>
    ELSE IF drag_stopped
    THEN <<IF c.tag = "Moving" THEN Inertia(c.pos, VZero, AmountStart) ELSE c,
           TRUE>>
    ELSE <<c, FALSE>>

\* recalculate_drag starting every drag from my_position.
recalculate_drag_from_my_position(c, dragged, drag_delta, drag_stopped, my_position) ==
    IF dragged
    THEN <<Moving(AdjustedPosition(my_position, VZero), drag_delta), TRUE>>
    ELSE IF drag_stopped
    THEN <<IF c.tag = "Moving" THEN Inertia(c.pos, c.direction, AmountStart) ELSE c,
           TRUE>>
    ELSE <<c, FALSE>>

\* recalculate_drag leaving the map in Moving when the drag stops.
recalculate_drag_no_inertia(c, dragged, drag_delta, drag_stopped, my_position) ==
    IF dragged
    THEN <<Moving(IF HasAdjustedPosition(c) THEN c.pos
                  ELSE AdjustedPosition(my_position, VZero),
                  drag_delta),
           TRUE>>
    ELSE <<c, drag_stopped>>

\* Center::recalculate_drag: <<new center, returned bool>>.
recalculate_drag(c, dragged, drag_delta, drag_stopped, my_position) ==
    IF dragged
    THEN <<Moving(IF HasAdjustedPosition(c) THEN c.pos
                  ELSE AdjustedPosition(my_position, VZero),
                  drag_delta),
           TRUE>>
    ELSE IF drag_stopped
    THEN <<IF c.tag = "Moving" THEN Inertia(c.pos, c.direction, AmountStart) ELSE c,
           TRUE>>
    ELSE <<c, FALSE>>

\* update_movement computing the inertia step without storing it in *self.
update_movement_unassigned(c) ==
    IF c.tag = "Moving"
    THEN <<Moving(AdjShift(c.pos, c.direction), c.direction), TRUE>>
    ELSE IF c.tag = "Inertia"
    THEN <<c, TRUE>>
    ELSE <<c, FALSE>>

\* update_movement shifting by the direction once more when the amount is used up.
update_movement_last_shift(c) ==
    IF c.tag = "Moving"
    THEN <<Moving(AdjShift(c.pos, c.direction), c.direction), TRUE>>
    ELSE IF c.tag = "Inertia"
    THEN IF c.amount <= 0
         THEN <<Exact(AdjShift(c.pos, c.direction)), TRUE>>
         ELSE <<Inertia(AdjShift(c.pos,
                                 Vec(MulDiv(c.direction.x, c.amount, AmountDen),
                                     MulDiv(c.direction.y, c.amount, AmountDen))),
                        c.direction, c.amount - AmountStep),
                TRUE>>
    ELSE <<c, FALSE>>

\* update_movement decrementing the amount before it scales the direction.
update_movement_decrement_first(c) ==
    IF c.tag = "Moving"
    THEN <<Moving(AdjShift(c.pos, c.direction), c.direction), TRUE>>
    ELSE IF c.tag = "Inertia"
    THEN IF c.amount <= 0
         THEN <<Exact(c.pos), TRUE>>
         ELSE <<Inertia(AdjShift(c.pos,
                                 Vec(MulDiv(c.direction.x, c.amount - AmountStep,
                                            AmountDen),
                                     MulDiv(c.direction.y, c.amount - AmountStep,
                                            AmountDen))),
                        c.direction, c.amount - AmountStep),
                TRUE>>
    ELSE <<c, FALSE>>

\* update_movement leaving a Moving center where it is.
update_movement_still(c) ==
    IF c.tag = "Moving"
    THEN <<c, TRUE>>
    ELSE IF c.tag = "Inertia"
    THEN IF c.amount <= 0
         THEN <<Exact(c.pos), TRUE>>
         ELSE <<Inertia(AdjShift(c.pos,
                                 Vec(MulDiv(c.direction.x, c.amount, AmountDen),
                                     MulDiv(c.direction.y, c.amount, AmountDen))),
                        c.direction, c.amount - AmountStep),
                TRUE>>
    ELSE <<c, FALSE>>

\* update_movement returning to MyPosition when the inertia is used up.
update_movement_refollow(c) ==
    IF c.tag = "Moving"
    THEN <<Moving(AdjShift(c.pos, c.direction), c.direction), TRUE>>
    ELSE IF c.tag = "Inertia"
    THEN IF c.amount <= 0
         THEN <<MyPosition, TRUE>>
         ELSE <<Inertia(AdjShift(c.pos,
                                 Vec(MulDiv(c.direction.x, c.amount, AmountDen),
                                     MulDiv(c.direction.y, c.amount, AmountDen))),
                        c.direction, c.amount - AmountStep),
                TRUE>>
    ELSE <<c, FALSE>>

\* update_movement testing the amount after the decrement instead of before
\* the shift.
update_movement_test_after(c) ==
    IF c.tag = "Moving"
    THEN <<[c EXCEPT !.pos.offset = VAdd(c.pos.offset, c.direction)], TRUE>>
    ELSE IF c.tag = "Inertia"
    THEN LET moved == [c.pos EXCEPT !.offset =
                           VAdd(c.pos.offset,
                                Vec(MulDiv(c.direction.x, c.amount, AmountDen),
                                    MulDiv(c.direction.y, c.amount, AmountDen)))]
         IN  <<IF c.amount - AmountStep <= 0 THEN Exact(moved)
               ELSE Inertia(moved, c.direction, c.amount - AmountStep),
               TRUE>>
    ELSE <<c, FALSE>>

\* Center::update_movement: <<new center, returned bool>>.
update_movement(c) ==
    IF c.tag = "Moving"
    THEN <<Moving(AdjShift(c.pos, c.direction), c.direction), TRUE>>
    ELSE IF c.tag = "Inertia"
    THEN IF c.amount <= 0
         THEN <<Exact(c.pos), TRUE>>
         ELSE <<Inertia(AdjShift(c.pos,
                                 Vec(MulDiv(c.direction.x, c.amount, AmountDen),
                                     MulDiv(c.direction.y, c.amount, AmountDen))),
                        c.direction, c.amount - AmountStep),
                TRUE>>
    ELSE <<c, FALSE>>

\* Center::shift forgotten: the center is returned as it is.
shift_dropped(c, offset) == c

\* Center::shift
shift(c, offset) ==
    IF HasAdjustedPosition(c) THEN [c EXCEPT !.pos = AdjShift(c.pos, offset)] ELSE c

\* Center::global_zero_offset
global_zero_offset(c, zoom) ==
    IF HasAdjustedPosition(c)
    THEN [c EXCEPT !.pos = AdjGlobalZeroOffset(c.pos, zoom)] ELSE c

\* Center::local_zero_offset
local_zero_offset(c, zoom) ==
    IF HasAdjustedPosition(c)
    THEN [c EXCEPT !.pos = AdjLocalZeroOffset(c.pos, zoom)] ELSE c

\* global_position reading the stored position in every variant.
global_position_stored(c, my_position, zoom) ==
    global_unadjusted_position(c.pos, zoom)

\* Center::global_position
global_position(c, my_position, zoom) ==
    IF HasAdjustedPosition(c) THEN global_unadjusted_position(c.pos, zoom)
    ELSE my_position

\* Center::local_position
local_position(c, my_position, zoom) ==
    IF HasAdjustedPosition(c) THEN local_unadjusted_position(c.pos, zoom)
    ELSE my_position

\* -------------------------------------------------------------- zoom.rs
\* (not among the sources: modelled from the specification, section 4.4)

MinZoom == MinZoomLevel * ZoomDen
MaxZoom == MaxZoomLevel * ZoomDen
\* Zoom::default
DefaultZoom == DefaultZoomLevel * ZoomDen

ZoomInBounds(v) == MinZoom <= v /\ v <= MaxZoom

\* Zoom::try_from(value): Err(InvalidZoom) outside the bounds.
ZoomTryFrom(v) ==
    IF ZoomInBounds(v) THEN [ok |-> TRUE, zoom |-> v] ELSE [ok |-> FALSE, zoom |-> v]

\* Zoom::zoom_by(delta): the same bounds check; the zoom is unchanged on Err.
ZoomBy(zoom, delta) ==
    IF ZoomInBounds(zoom + delta) THEN [ok |-> TRUE, zoom |-> zoom + delta]
    ELSE [ok |-> FALSE, zoom |-> zoom]

\* Zoom::zoom_in: one level up.
ZoomZoomIn(zoom) == ZoomBy(zoom, ZoomDen)

\* Zoom::zoom_out: one level down.
ZoomZoomOut(zoom) == ZoomBy(zoom, -ZoomDen)

\* Zoom::round: the display zoom as the u8 level of the tile pyramid, to the
\* nearest level, a half level upwards.
ZoomRound(zoom) == (zoom + ZoomDen \div 2) \div ZoomDen

\* -------------------------------------------------------- map_memory.rs

\* The fold every zoom mutator starts with (map_memory.rs:31-34, 41-44, 51-54).
FoldCenter(pt, c, zoom) ==
    IF pt = "Global" THEN global_zero_offset(c, zoom) ELSE local_zero_offset(c, zoom)

\* zoom_in dropping the Result of Zoom::zoom_in and returning Ok(()).
MemZoomInSwallow(pt, c, zoom) ==
    [center_mode |-> FoldCenter(pt, c, zoom), zoom |-> ZoomZoomIn(zoom).zoom,
     ok |-> TRUE]

\* MapMemory::zoom_in: [center_mode, zoom, ok].
MemZoomIn(pt, c, zoom) ==
    LET r == ZoomZoomIn(zoom)
    IN  [center_mode |-> FoldCenter(pt, c, zoom), zoom |-> r.zoom, ok |-> r.ok]

\* MapMemory::zoom_out
MemZoomOut(pt, c, zoom) ==
    LET r == ZoomZoomOut(zoom)
    IN  [center_mode |-> FoldCenter(pt, c, zoom), zoom |-> r.zoom, ok |-> r.ok]

\* set_zoom storing the value without Zoom::try_from.
MemSetZoomUnchecked(pt, c, zoom, new_zoom) ==
    [center_mode |-> FoldCenter(pt, c, zoom), zoom |-> new_zoom, ok |-> TRUE]

\* MapMemory::set_zoom: on Err the `?` returns before self.zoom is assigned.
MemSetZoom(pt, c, zoom, new_zoom) ==
    LET r == ZoomTryFrom(new_zoom)
    IN  [center_mode |-> FoldCenter(pt, c, zoom),
         zoom |-> IF r.ok THEN r.zoom ELSE zoom, ok |-> r.ok]

\* center_at leaving the map as if it were being dragged.
MemCenterAtMoving(pos) == Moving(AdjustedPosition(pos, VZero), VZero)

\* MapMemory::center_at
MemCenterAt(pos) == Exact(AdjustedPosition(pos, VZero))

\* detached handing out the stored base position, the pixel offset left out.
detached_base(pt, c, zoom) ==
    IF ~HasAdjustedPosition(c) THEN <<FALSE, VZero>> ELSE <<TRUE, c.pos.position>>

\* MapMemory::detached: <<is Some, position>>.
detached(pt, c, zoom) ==
    IF ~HasAdjustedPosition(c) THEN <<FALSE, VZero>>
    ELSE IF pt = "Global" THEN <<TRUE, global_unadjusted_position(c.pos, zoom)>>
    ELSE <<TRUE, local_unadjusted_position(c.pos, zoom)>>

\* --------------------------------------------------------- projector.rs

\* The displayed center: center_mode.global_position / local_position.
CenterPosition(pt, c, my_position, zoom) ==
    IF pt = "Global" THEN global_position(c, my_position, zoom)
    ELSE local_position(c, my_position, zoom)

BitmapProject(pt, pos, zoom) ==
    IF pt = "Global" THEN global_bitmap_project(pos, zoom)
    ELSE local_bitmap_project(pos, zoom)

\* Pixel::global_bitmap_unproject / local_bitmap_unproject.
BitmapUnproject(pt, px, zoom) ==
    IF pt = "Global" THEN global_bitmap_unproject(px, zoom)
    ELSE local_bitmap_unproject(px, zoom)

\* AdjustedPosition::global_unadjusted_position / local_unadjusted_position.
UnadjustedPosition(pt, adj, zoom) ==
    CASE adj = adj ->
         IF pt = "Global" THEN global_unadjusted_position(adj, zoom)
         ELSE local_unadjusted_position(adj, zoom)

\* (bm_pos - map_center_projected_position) + clip_rect.center(), on the
\* screen (projector.rs:46-47, 58-59).
ScreenPosition(bm_pos, map_center_projected_position, zoom, clip_center) ==
    CASE bm_pos = bm_pos /\ map_center_projected_position = map_center_projected_position ->
         VAdd(BitmapToPx(VSub(bm_pos, map_center_projected_position), zoom),
              clip_center)

\* project taking the stored base position for the map center, the pixel
\* offset of the AdjustedPosition left out.
project_base_center(pt, c, zoom, my_position, clip_center, pos) ==
    ScreenPosition(BitmapProject(pt, pos, zoom),
                   BitmapProject(pt, IF HasAdjustedPosition(c) THEN c.pos.position
                                     ELSE my_position, zoom),
                   zoom, clip_center)

\* Projector::project, for a clip_rect whose center is clip_center.
project(pt, c, zoom, my_position, clip_center, pos) ==
    ScreenPosition(BitmapProject(pt, pos, zoom),
                   BitmapProject(pt, CenterPosition(pt, c, my_position, zoom), zoom),
                   zoom, clip_center)

\* Projector::unproject: the center shifted by -screen_pos, unadjusted.  The
\* clip_rect does not enter the computation.
unproject(pt, c, zoom, my_position, clip_center, screen_pos) ==
    UnadjustedPosition(pt,
        AdjShift(AdjustedPosition(CenterPosition(pt, c, my_position, zoom), VZero),
                 VNeg(screen_pos)),
        zoom)

\* ------------------------------------- maps/global_map.rs, local_map.rs

ZoomDeltaDen == 10^2                \* input.zoom_delta() in hundredths
ScrollZoomDiv == 200                \* smooth_scroll_delta.y / 200.0

\* The builder settings of Map / LocalMap (Map::new, LocalMap::new defaults).
DefaultConfig ==
    [zoom_gesture_enabled |-> TRUE, drag_gesture_enabled |-> TRUE, zoom_speed |-> 2,
     double_click_to_zoom |-> FALSE, double_click_to_zoom_out |-> FALSE,
     zoom_with_ctrl |-> TRUE]

\* What egui reports in one frame: ui.input(..), ui.ui_contains_pointer() and
\* the Response of the allocated rectangle.  hover is response.hover_pos()
\* relative to response.rect.center().
NoHover == [some |-> FALSE, offset |-> VZero]
Hover(o) == [some |-> TRUE, offset |-> o]
IdleInput ==
    [zoom_delta |-> ZoomDeltaDen, contains_pointer |-> FALSE, hover |-> NoHover,
     double_clicked_primary |-> FALSE, double_clicked_secondary |-> FALSE,
     scroll_delta |-> VZero, any_touches |-> FALSE,
     dragged |-> FALSE, drag_delta |-> VZero, drag_stopped |-> FALSE]

\* zoom_delta after the double-click overrides (global_map.rs:108-122).
DoubleClickZoomDelta(cfg, inp) ==
    IF cfg.double_click_to_zoom_out /\ inp.contains_pointer
       /\ inp.double_clicked_secondary
    THEN 0
    ELSE IF cfg.double_click_to_zoom /\ inp.contains_pointer
            /\ inp.double_clicked_primary
    THEN 2 * ZoomDeltaDen
    ELSE inp.zoom_delta

\* zoom_delta from the raw scroll when zooming without ctrl (global_map.rs:124-129).
ScrollZoomDelta(cfg, inp, zoom_delta) ==
    IF ~cfg.zoom_with_ctrl /\ zoom_delta = ZoomDeltaDen
    THEN ZoomDeltaDen + MulDiv(inp.scroll_delta.y, ZoomDeltaDen, ScrollZoomDiv * PxDen)
    ELSE zoom_delta

\* The condition of the zoom branch (global_map.rs:135-137).
Zooming(cfg, inp, zoom_delta) ==
    /\ ~(ZoomDeltaDen - 1 <= zoom_delta /\ zoom_delta <= ZoomDeltaDen + 1)
    /\ inp.contains_pointer
    /\ cfg.zoom_gesture_enabled

\* AdjustedPosition::global_zero_offset / local_zero_offset.
AdjZeroOffset(pt, adj, zoom) ==
    IF pt = "Global" THEN AdjGlobalZeroOffset(adj, zoom) ELSE AdjLocalZeroOffset(adj, zoom)

\* The location under the pointer moved to the widget's center
\* (global_map.rs:151-156): pos is the displayed center.
MoveToPointer(pt, c, pos, hover, zoom) ==
    IF hover.some
    THEN Exact(AdjZeroOffset(pt, AdjShift(AdjustedPosition(pos, VZero),
                                          VNeg(hover.offset)), zoom))
    ELSE c

\* self.memory.center_mode.shift(offset) when the pointer hovers
\* (global_map.rs:171-173).
ShiftBack(c, hover) == IF hover.some THEN shift(c, hover.offset) ELSE c

\* The rest of the zoom branch (global_map.rs:158-175): c is the center after
\* MoveToPointer, zb the result of zoom_by, which the code drops.
ZoomAndFold(pt, c, zb, hover) ==
    CASE c = c ->
         [center_mode |-> ShiftBack(FoldCenter(pt, c, zb.zoom), hover),
          zoom |-> zb.zoom, changed |-> TRUE, zoomed |-> TRUE,
          zoom_by_ok |-> zb.ok, panned |-> FALSE, zoom_offset |-> c.pos.offset]

\* The zoom branch of handle_gestures (global_map.rs:138-175).
ZoomGesture(pt, c, zoom, my_position, cfg, inp, zoom_delta) ==
    ZoomAndFold(pt,
        MoveToPointer(pt, c, CenterPosition(pt, c, my_position, zoom), inp.hover, zoom),
        ZoomBy(zoom, MulDiv((zoom_delta - ZoomDeltaDen) * cfg.zoom_speed,
                            ZoomDen, ZoomDeltaDen)),
        inp.hover)

\* The drag branch (global_map.rs:176-181): rd is what recalculate_drag returned.
DragGesture(rd, zoom) ==
    [center_mode |-> rd[1], zoom |-> zoom, changed |-> rd[2], zoomed |-> FALSE,
     zoom_by_ok |-> TRUE, panned |-> FALSE, zoom_offset |-> VZero]

\* Zooming and dragging are exclusive (global_map.rs:135-181).
ZoomOrDrag(pt, c, zoom, my_position, cfg, inp, zoom_delta) ==
    IF Zooming(cfg, inp, zoom_delta)
    THEN ZoomGesture(pt, c, zoom, my_position, cfg, inp, zoom_delta)
    ELSE IF cfg.drag_gesture_enabled
    THEN DragGesture(recalculate_drag(c, inp.dragged, inp.drag_delta,
                                      inp.drag_stopped, my_position), zoom)
    ELSE [center_mode |-> c, zoom |-> zoom, changed |-> FALSE, zoomed |-> FALSE,
          zoom_by_ok |-> TRUE, panned |-> FALSE, zoom_offset |-> VZero]

\* Panning by scrolling that shifts a stored position in place, keeping the
\* variant with its direction and amount.
ScrollPanKeepVariant(pt, g, my_position, cfg, inp) ==
    CASE g = g ->
         IF /\ inp.contains_pointer
            /\ (inp.any_touches \/ cfg.zoom_with_ctrl)
            /\ inp.scroll_delta # VZero
         THEN [g EXCEPT
                  !.center_mode =
                      IF HasAdjustedPosition(g.center_mode)
                      THEN [g.center_mode EXCEPT
                               !.pos = AdjShift(
                                   AdjustedPosition(
                                       CenterPosition(pt, g.center_mode, my_position, g.zoom),
                                       VZero),
                                   inp.scroll_delta)]
                      ELSE Exact(AdjShift(AdjustedPosition(my_position, VZero),
                                          inp.scroll_delta)),
                  !.panned = TRUE]
         ELSE g

\* Panning by scrolling (global_map.rs:183-198): g is the memory and the
\* result after the zoom / drag branch.
ScrollPan(pt, g, my_position, cfg, inp) ==
    CASE g = g ->
         IF /\ inp.contains_pointer
            /\ (inp.any_touches \/ cfg.zoom_with_ctrl)
            /\ inp.scroll_delta # VZero
         THEN [g EXCEPT
                  !.center_mode =
                      Exact(AdjShift(
                          AdjustedPosition(
                              CenterPosition(pt, g.center_mode, my_position, g.zoom),
                              VZero),
                          inp.scroll_delta)),
                  !.panned = TRUE]
         ELSE g

\* Map::handle_gestures / LocalMap::handle_gestures (pt selects the global_*
\* or local_* calls).  changed is the returned bool; zoomed: the zoom branch
\* ran; zoom_by_ok: the Result of zoom_by, which the code drops; panned: the
\* scroll pan ran; zoom_offset: the pixel offset center_mode holds when zoom_by
\* is called.
handle_gestures(pt, c, zoom, my_position, cfg, inp) ==
    ScrollPan(pt,
        ZoomOrDrag(pt, c, zoom, my_position, cfg, inp,
                   ScrollZoomDelta(cfg, inp, DoubleClickZoomDelta(cfg, inp))),
        my_position, cfg, inp)

\* ------------------------------------------------------- the state machine

VARIABLES
    projection_type,    \* MapMemory.projection_type
    center_mode,        \* MapMemory.center_mode
    zoom,               \* MapMemory.zoom
    my_position,        \* the my_position handed to Map::new / LocalMap::new
    last,               \* the last call: its inputs, the state before it, its results
    nops                \* calls made so far

vars == <<projection_type, center_mode, zoom, my_position, last, nops>>

MaxOps == 2

\* Sample positions: Global (lon 17.0, lat 51.1) and a neighbour; Local
\* (10, 2) and a neighbour.
GlobalPositions == {Vec(17 * LonDen, 511 * (LatDen \div 10)),
                    Vec(17 * LonDen + 800, 511 * (LatDen \div 10) - 1000)}
LocalPositions == {Vec(10 * LocalDen, 2 * LocalDen), Vec(-3 * LocalDen + 5, 7 * LocalDen)}
Positions(pt) == IF pt = "Global" THEN GlobalPositions ELSE LocalPositions
MyPositions(pt) ==
    IF pt = "Global" THEN {Vec(17 * LonDen, 511 * (LatDen \div 10))}
    ELSE {Vec(10 * LocalDen, 2 * LocalDen)}

\* Viewport centers: a rectangle at the origin and 800x600 with center (400, 300).
ClipCenters == {VZero, Vec(400 * PxDen, 300 * PxDen)}

SetZoomValues == {-1, 0, 31, MaxZoom, MaxZoom + 1}
DragDeltas == {VZero, Vec(2 * PxDen, -PxDen)}
HoverOffsets == {Vec(100 * PxDen, -50 * PxDen)}
ZoomDeltas == {0, 75, 125, 2 * ZoomDeltaDen}
ScrollDeltas == {Vec(0, 50 * PxDen)}

\* The record of a call.  pre_center, pre_zoom, pre_projection_type: the
\* memory before the call;
\* mid_center: center_mode when handle_gestures (or the mutator) returned;
\* ok: the Result handed to the caller (ui and handle_gestures return none);
\* changed: what handle_gestures returned; moved: changed | update_movement();
\* steps: the update_movement calls made on the Inertia created by the last
\* release, with no other input since; zoom_offset: the pixel offset
\* center_mode holds when the call assigns or changes the zoom.
NoCall ==
    [op |-> "new", cfg |-> DefaultConfig, inp |-> IdleInput, arg |-> VZero,
     new_zoom |-> 0, pre_center |-> MyPosition, pre_zoom |-> DefaultZoom,
     mid_center |-> MyPosition, ok |-> TRUE, changed |-> FALSE, moved |-> FALSE,
     zoomed |-> FALSE, zoom_by_ok |-> TRUE, panned |-> FALSE, steps |-> 0,
     zoom_offset |-> VZero, pre_projection_type |-> "Global"]

Call(op) ==
    [NoCall EXCEPT !.op = op, !.pre_center = center_mode, !.pre_zoom = zoom,
                   !.mid_center = center_mode,
                   !.pre_projection_type = projection_type]

\* MapMemory::default() handed to Map::new (Global) or LocalMap::new (Local).
Init ==
    /\ projection_type \in {"Global", "Local"}
    /\ center_mode = MyPosition
    /\ zoom = DefaultZoom
    /\ my_position \in MyPositions(projection_type)
    /\ last = Call("new")
    /\ nops = 0

\* What a zoom mutator leaves: r is [center_mode, zoom, ok].
Returned(op, new_zoom, r) ==
    /\ center_mode' = r.center_mode
    /\ zoom' = r.zoom
    /\ last' = [Call(op) EXCEPT !.ok = r.ok, !.new_zoom = new_zoom,
                                !.mid_center = r.center_mode,
                                !.zoom_offset = r.center_mode.pos.offset]

\* memory.zoom_in()
ZoomIn ==
    /\ nops < MaxOps
    /\ Returned("zoom_in", 0, MemZoomIn(projection_type, center_mode, zoom))
    /\ nops' = nops + 1
    /\ UNCHANGED <<projection_type, my_position>>

\* memory.zoom_out()
ZoomOut ==
    /\ nops < MaxOps
    /\ Returned("zoom_out", 0, MemZoomOut(projection_type, center_mode, zoom))
    /\ nops' = nops + 1
    /\ UNCHANGED <<projection_type, my_position>>

\* memory.set_zoom(new_zoom)
SetZoom ==
    /\ nops < MaxOps
    /\ \E v \in SetZoomValues :
          Returned("set_zoom", v, MemSetZoom(projection_type, center_mode, zoom, v))
    /\ nops' = nops + 1
    /\ UNCHANGED <<projection_type, my_position>>

\* memory.center_at(pos)
CenterAt ==
    /\ nops < MaxOps
    /\ \E p \in Positions(projection_type) :
          /\ center_mode' = MemCenterAt(p)
          /\ last' = [Call("center_at") EXCEPT !.arg = p, !.mid_center = MemCenterAt(p)]
    /\ nops' = nops + 1
    /\ UNCHANGED <<projection_type, zoom, my_position>>

\* memory.follow_my_position()
FollowMyPosition ==
    /\ nops < MaxOps
    /\ center_mode' = MyPosition
    /\ last' = [Call("follow_my_position") EXCEPT !.mid_center = MyPosition]
    /\ nops' = nops + 1
    /\ UNCHANGED <<projection_type, zoom, my_position>>

\* The update_movement calls made on the Inertia created by the last release,
\* with no other input since: hg is what handle_gestures left.
CoastingSteps(inp, hg) ==
    IF center_mode.tag = "Moving" /\ inp.drag_stopped /\ hg.center_mode.tag = "Inertia"
    THEN 1
    ELSE IF inp = IdleInput /\ center_mode.tag = "Inertia" /\ last.steps > 0
    THEN last.steps + 1
    ELSE 0

\* What ui() leaves: hg is what handle_gestures left, um what update_movement
\* returned.
FrameEnd(cfg, inp, hg, um) ==
    /\ center_mode' = um[1]
    /\ zoom' = hg.zoom
    /\ last' = [Call("ui") EXCEPT !.cfg = cfg, !.inp = inp,
                    !.mid_center = hg.center_mode, !.changed = hg.changed,
                    !.moved = (hg.changed \/ um[2]), !.zoomed = hg.zoomed,
                    !.zoom_by_ok = hg.zoom_by_ok, !.panned = hg.panned,
                    !.zoom_offset = hg.zoom_offset,
                    !.steps = CoastingSteps(inp, hg)]

\* moved |= self.memory.center_mode.update_movement() (global_map.rs:210).
FrameMove(cfg, inp, hg) ==
    hg = hg /\ FrameEnd(cfg, inp, hg, update_movement(hg.center_mode))

\* Widget::ui of Map / LocalMap: handle_gestures, then update_movement
\* (global_map.rs:209-210, local_map.rs:182-183).
Frame(cfg, inp) ==
    FrameMove(cfg, inp,
              handle_gestures(projection_type, center_mode, zoom, my_position,
                              cfg, inp))

\* nops counts the commands and gestures of the user: the frames that continue
\* a movement (the release that ends a drag, the frames without input while
\* the map coasts) are free.
Counted(counted) ==
    /\ counted => nops < MaxOps
    /\ nops' = IF counted THEN nops + 1 ELSE nops

\* A frame in which egui reports nothing.
FrameIdle ==
    /\ Counted(center_mode.tag # "Inertia")
    /\ Frame(DefaultConfig, IdleInput)
    /\ UNCHANGED <<projection_type, my_position>>

\* A frame in which the primary button drags the map.
FrameDrag ==
    /\ Counted(TRUE)
    /\ \E d \in DragDeltas :
          Frame(DefaultConfig,
                [IdleInput EXCEPT !.contains_pointer = TRUE, !.dragged = TRUE,
                                  !.drag_delta = d])
    /\ UNCHANGED <<projection_type, my_position>>

\* The frame in which the drag is released.
FrameRelease ==
    /\ Counted(center_mode.tag # "Moving")
    /\ Frame(DefaultConfig,
             [IdleInput EXCEPT !.contains_pointer = TRUE, !.drag_stopped = TRUE])
    /\ UNCHANGED <<projection_type, my_position>>

\* A frame with a zoom gesture (ctrl + wheel, pinch), the pointer hovering or not.
FrameZoom ==
    /\ Counted(TRUE)
    /\ \E zd \in ZoomDeltas, h \in {NoHover} \cup {Hover(o) : o \in HoverOffsets} :
          Frame(DefaultConfig,
                [IdleInput EXCEPT !.contains_pointer = TRUE, !.zoom_delta = zd,
                                  !.hover = h])
    /\ UNCHANGED <<projection_type, my_position>>

\* A frame with a scroll (two-finger pan).
FrameScroll ==
    /\ Counted(TRUE)
    /\ \E sd \in ScrollDeltas :
          Frame(DefaultConfig,
                [IdleInput EXCEPT !.contains_pointer = TRUE, !.scroll_delta = sd])
    /\ UNCHANGED <<projection_type, my_position>>

\* A frame with a touch gesture that scrolls (two fingers moving together),
\* with or without the drag of the primary pointer, the response hovered or
\* not, under either setting of zoom_with_ctrl: without it the scroll delta
\* is a zoom gesture as well (global_map.rs:124-129).
FrameTouchPan ==
    /\ Counted(TRUE)
    /\ \E sd \in ScrollDeltas, dragged \in BOOLEAN, ctrl \in BOOLEAN,
          h \in {NoHover} \cup {Hover(o) : o \in HoverOffsets} :
          Frame([DefaultConfig EXCEPT !.zoom_with_ctrl = ctrl],
                [IdleInput EXCEPT !.contains_pointer = TRUE, !.any_touches = TRUE,
                                  !.scroll_delta = sd, !.hover = h,
                                  !.dragged = dragged,
                                  !.drag_delta = IF dragged THEN Vec(2 * PxDen, -PxDen)
                                                 ELSE VZero])
    /\ UNCHANGED <<projection_type, my_position>>

Next ==
    \/ ZoomIn
    \/ ZoomOut
    \/ SetZoom
    \/ CenterAt
    \/ FollowMyPosition
    \/ FrameIdle
    \/ FrameDrag
    \/ FrameRelease
    \/ FrameZoom
    \/ FrameScroll
    \/ FrameTouchPan

Spec == Init /\ [][Next]_vars

\* ------------------------------------- the functions of units.rs, applied
\*
\* A second state machine over the same variables: the memory starts in any
\* of a set of states the widget can be in (every zoom, positions up to the
\* edges of the map and beyond them, every variant of Center) and the steps
\* apply the functions of units.rs to it the way the widget does.  Here
\* `last` records the application: the function, the memory before it, the
\* argument and the result.

\* Display zooms: the levels 0, 0.5, 1, 1.5, 2, 2.5, 15.5, 16, 16.5, 19.5, 20.
UnitZooms ==
    {MinZoom + h : h \in 0 .. 5} \cup {DefaultZoom - 1, DefaultZoom, DefaultZoom + 1}
    \cup {MaxZoom - 1, MaxZoom}

\* tiles.tile_size(): 256, 512 and 1024 pixels.
TileSizes == {TILE_SIZE, 2 * TILE_SIZE, 4 * TILE_SIZE}

\* Global positions <<lon, lat>>: the origin, the sample position, the
\* antimeridian on both sides, longitudes beyond it, the latitude where the
\* Mercator square ends (85.0511 degrees) and latitudes beyond it.
UnitGlobalPositions ==
    {Vec(0, 0), Vec(17 * LonDen, 511 * (LatDen \div 10)),
     Vec(180 * LonDen, 0), Vec(-180 * LonDen, 0),
     Vec(190 * LonDen, -30 * LatDen), Vec(-200 * LonDen, 60 * LatDen),
     Vec(10 * LonDen, 1701022576), Vec(10 * LonDen, 86 * LatDen),
     Vec(-75 * LonDen, -86 * LatDen)}

UnitLocalPositions == LocalPositions \cup {VZero}

UnitPositions(pt) ==
    IF pt = "Global" THEN UnitGlobalPositions ELSE UnitLocalPositions

\* Pixel offsets an AdjustedPosition holds after a drag or a pan.
UnitOffsets == {VZero, Vec(2 * PxDen, -PxDen), Vec(-3 * PxDen, 2 * PxDen)}

\* Every variant of Center around an AdjustedPosition.
UnitCenters(adj) ==
    {Exact(adj), Moving(adj, Vec(2 * PxDen, -PxDen)),
     Inertia(adj, Vec(2 * PxDen, -PxDen), AmountStart - 17 * AmountStep)}

\* The record of an application.
Applied(op) ==
    [op |-> op, pre_center |-> center_mode, pre_zoom |-> zoom, arg |-> VZero,
     source_tile_size |-> TILE_SIZE, tile |-> TileId(0, 0, 0), result |-> VZero]

UnitsInit ==
    /\ projection_type \in {"Global", "Local"}
    /\ zoom \in UnitZooms
    /\ my_position \in UnitPositions(projection_type)
    /\ center_mode \in
           {MyPosition}
           \cup UNION {UnitCenters(AdjustedPosition(my_position, o)) : o \in UnitOffsets}
    /\ last = Applied("new")
    /\ nops = 0

\* The tile under the map center, the start of flood_fill_tiles
\* (global_map.rs:217-229): r is one outcome of tile_id.
TileOutcome(map_center, source_tile_size, r) ==
    last' = [Applied("tile_id") EXCEPT !.arg = map_center,
                 !.source_tile_size = source_tile_size, !.tile = r]

\* Map::ui with a tile source: map_center.tile_id(zoom.round(), tile_size()).
UnitTile ==
    /\ projection_type = "Global"
    /\ \E source_tile_size \in TileSizes :
          \E r \in tile_id(global_position(center_mode, my_position, zoom),
                           ZoomRound(zoom), source_tile_size) :
              TileOutcome(global_position(center_mode, my_position, zoom),
                          source_tile_size, r)
    /\ UNCHANGED <<projection_type, center_mode, zoom, my_position, nops>>

\* center_mode folded at the current zoom: Center::global_zero_offset /
\* local_zero_offset, as every zoom mutator starts.
UnitFold ==
    /\ center_mode' = FoldCenter(projection_type, center_mode, zoom)
    /\ last' = Applied("zero_offset")
    /\ UNCHANGED <<projection_type, zoom, my_position, nops>>

\* A position projected on the bitmap and unprojected at the same zoom: what
\* unadjusted_position does to an AdjustedPosition without offset.
UnitRoundTrip ==
    /\ last' = [Applied("round_trip") EXCEPT !.arg = my_position,
                    !.result = BitmapUnproject(projection_type,
                                   BitmapProject(projection_type, my_position, zoom),
                                   zoom)]
    /\ UNCHANGED <<projection_type, center_mode, zoom, my_position, nops>>

UnitsNext ==
    \/ UnitTile
    \/ UnitFold
    \/ UnitRoundTrip

Units == UnitsInit /\ [][UnitsNext]_vars

\* ------------------------------------------------------------ properties

\* Two screen positions no further apart than tol on each axis.
NearPx(a, b, tol) == Abs(a.x - b.x) <= tol /\ Abs(a.y - b.y) <= tol

\* One stored unit of the bitmap grid, in screen units, and one screen unit:
\* less than a third of a pixel at every zoom.
PixelTol(z) == PxDen \div PixelUnit(z) + 1

\* Two positions whose bitmap projections are no further apart than one screen
\* unit (a hundredth of a pixel) and two stored bitmap units: a screen position
\* holds no more than that.
SamePosition(pt, p, q, z) ==
    LET a   == BitmapProject(pt, p, z)
        b   == BitmapProject(pt, q, z)
        tol == PixelUnit(z) \div PxDen + 2
    IN  Abs(a.x - b.x) <= tol /\ Abs(a.y - b.y) <= tol

ViewportCenter == Vec(400 * PxDen, 300 * PxDen)
ShiftSamples == {Vec(10 * PxDen, 0), Vec(-20 * PxDen, 5 * PxDen)}
ScenarioPosition == Vec(17 * LonDen, 511 * (LatDen \div 10))

\* C1: Projector::unproject is the inverse of Projector::project: for every
\* center variant, zoom, viewport rectangle (also one whose center is not the
\* origin) and position p, unproject(project(p)) = p, up to the resolution of
\* a screen position.  (Below zoom level 3 a viewport of
\* 800 pixels reaches beyond the world map; those states are left out.)
C1_UnprojectInvertsProject ==
    zoom >= 3 * ZoomDen =>
        \A cc \in ClipCenters, p \in Positions(projection_type) :
            LET s == project(projection_type, center_mode, zoom, my_position, cc, p)
                q == unproject(projection_type, center_mode, zoom, my_position, cc, s)
            IN  CASE s = s /\ q = q -> SamePosition(projection_type, q, p, zoom)

\* The position under the pointer hovering at offset o from the viewport
\* center, in the memory before the last call.
PositionUnderPointer(o) ==
    UnadjustedPosition(projection_type,
        AdjustedPosition(CenterPosition(projection_type, last.pre_center, my_position,
                                        last.pre_zoom),
                         VNeg(o)),
        last.pre_zoom)

ZoomGestureWithHover ==
    /\ last.op = "ui" /\ last.zoomed /\ last.inp.hover.some
    /\ ~last.panned /\ last.zoom_by_ok

\* C2: zoom-anchored invariant.  When handle_gestures applies a zoom gesture
\* with the pointer hovering at offset o from the viewport center (no scroll
\* pan in the frame, the zoom staying within bounds), the position that
\* projected to viewport_center + o before the step projects to
\* viewport_center + o after it, whatever the center variant was.
C2_ZoomAnchored ==
    ZoomGestureWithHover =>
        \A cc \in ClipCenters :
            LET o == last.inp.hover.offset
                q == PositionUnderPointer(o)
            IN  /\ q = q
                /\ NearPx(project(projection_type, last.pre_center, last.pre_zoom,
                                  my_position, cc, q),
                          VAdd(cc, o), PixelTol(last.pre_zoom))
                /\ NearPx(project(projection_type, last.mid_center, zoom,
                                  my_position, cc, q),
                          VAdd(cc, o), PixelTol(zoom))
                /\ center_mode = last.mid_center

C2_Witness ==
    /\ ZoomGestureWithHover
    /\ last.pre_center.tag = "Inertia"
    /\ last.pre_center.pos.offset # VZero
    /\ zoom # last.pre_zoom

ExactZeroOffset == center_mode.tag = "Exact" /\ center_mode.pos.offset = VZero

\* C3 (as the code has it): with the center Exact at pos with zero offset,
\* project(pos) after Center::shift(d) is viewport_center + d: (410, 300) for
\* d = (10, 0) and the viewport center (400, 300).
C3_ShiftMovesContentAlong ==
    ExactZeroOffset =>
        \A d \in ShiftSamples, cc \in ClipCenters :
            project(projection_type, shift(center_mode, d), zoom, my_position, cc,
                    center_mode.pos.position) = VAdd(cc, d)

C3_Witness ==
    /\ projection_type = "Global" /\ zoom = DefaultZoom
    /\ center_mode = Exact(AdjustedPosition(ScenarioPosition, VZero))
    /\ project(projection_type, shift(center_mode, Vec(10 * PxDen, 0)), zoom,
               my_position, ViewportCenter, ScenarioPosition)
           = Vec(410 * PxDen, 300 * PxDen)

\* C3 as claimed: project(pos) after shift(d) is viewport_center - d,
\* (390, 300) in the scenario.
C3_ShiftMovesContentOpposite ==
    ExactZeroOffset =>
        \A d \in ShiftSamples, cc \in ClipCenters :
            project(projection_type, shift(center_mode, d), zoom, my_position, cc,
                    center_mode.pos.position) = VSub(cc, d)

\* C4: the displayed center projects to the center pixel of the viewport, for
\* every center variant, zoom and viewport rectangle.
C4_CenterProjectsToViewportCenter ==
    LET center == CenterPosition(projection_type, center_mode, my_position, zoom)
    IN  /\ center = center
        /\ \A cc \in ClipCenters :
               project(projection_type, center_mode, zoom, my_position, cc, center) = cc

C4_Witness ==
    /\ center_mode.tag = "Moving" /\ center_mode.pos.offset # VZero
    /\ zoom # DefaultZoom
    /\ \E center \in {CenterPosition(projection_type, center_mode, my_position, zoom)} :
           project(projection_type, center_mode, zoom, my_position, ViewportCenter,
                   center) = ViewportCenter

CoastSteps == (AmountStart + AmountStep - 1) \div AmountStep + 1

\* C5 (as the code has it): from the Inertia with amount 1.0 created on drag
\* release, update_movement leaves the center in Inertia for 34 steps (the
\* amount after step k is 1.0 - 0.03 k, -0.02 after the 34th) and makes it
\* Exact on the 35th.
C5_ExactAfter35Steps ==
    /\ (1 <= last.steps /\ last.steps < CoastSteps) =>
           /\ center_mode.tag = "Inertia"
           /\ center_mode.amount = AmountStart - AmountStep * last.steps
    /\ last.steps = CoastSteps => center_mode.tag = "Exact"

C5_Witness ==
    /\ last.steps = CoastSteps
    /\ center_mode.tag = "Exact"
    /\ last.pre_center.tag = "Inertia" /\ last.pre_center.amount <= 0
    /\ last.pre_center.direction # VZero

\* C5 as claimed: 34 steps of update_movement leave the center Exact.
C5_ExactAfter34Steps ==
    last.steps = CoastSteps - 1 => center_mode.tag = "Exact"

ReleaseFrame ==
    /\ last.op = "ui" /\ last.inp.drag_stopped /\ ~last.inp.dragged
    /\ ~last.zoomed /\ ~last.panned
    /\ last.pre_center.tag = "Moving"

\* C6 (as the code has it): in the frame that reports the release of a drag,
\* handle_gestures (recalculate_drag) makes the center Inertia with amount
\* 1.0, carrying the position and direction of the drag; update_movement of
\* the same frame then takes its first step, so that ui() leaves the center
\* in Inertia with amount 0.97.
C6_ReleaseFrameStartsCoasting ==
    ReleaseFrame =>
        /\ last.mid_center = Inertia(last.pre_center.pos, last.pre_center.direction,
                                     AmountStart)
        /\ center_mode.tag = "Inertia"
        /\ center_mode.amount = AmountStart - AmountStep
        /\ center_mode.direction = last.pre_center.direction

C6_Witness ==
    /\ ReleaseFrame
    /\ last.pre_center.direction = VZero
    /\ last.mid_center.amount = AmountStart
    /\ center_mode.tag = "Inertia" /\ center_mode.amount = AmountStart - AmountStep

\* C6 as claimed: after the frame of the drag and the frame of the release,
\* each a ui(), the center is Inertia with amount 1.0.
C6_ReleaseFrameLeavesFullAmount ==
    ReleaseFrame => center_mode.tag = "Inertia" /\ center_mode.amount = AmountStart

FailedZoomMutator ==
    last.op \in {"zoom_in", "zoom_out", "set_zoom"} /\ ~last.ok

\* C7: a failed zoom mutator mutates nothing: when zoom_in, zoom_out or
\* set_zoom returns Err(InvalidZoom), the zoom and center_mode (variant, base
\* position, pixel offset) are what they were before the call.  (The base
\* position is compared up to the resolution of a screen position, so that
\* the rounding of a fold does not count as a mutation.)
C7_FailedMutatorMutatesNothing ==
    FailedZoomMutator =>
        /\ zoom = last.pre_zoom
        /\ center_mode.tag = last.pre_center.tag
        /\ center_mode.pos.offset = last.pre_center.pos.offset
        /\ SamePosition(projection_type, center_mode.pos.position,
                        last.pre_center.pos.position, zoom)
        /\ center_mode.direction = last.pre_center.direction
        /\ center_mode.amount = last.pre_center.amount

\* C8: zoom_in at the maximum returns the bounds error and zoom() reports the
\* value it reported before the call; zoom_out at the minimum likewise.
C8_ZoomBoundsError ==
    /\ (last.op = "zoom_in" /\ last.pre_zoom = MaxZoom) =>
           ~last.ok /\ zoom = last.pre_zoom
    /\ (last.op = "zoom_out" /\ last.pre_zoom = MinZoom) =>
           ~last.ok /\ zoom = last.pre_zoom

C8_Witness ==
    last.op = "zoom_in" /\ last.pre_zoom = MaxZoom /\ ~last.ok /\ zoom = MaxZoom

\* C9: in every state reachable by zoom_in, zoom_out, set_zoom(v) and zoom
\* gestures (zoom_by), the stored zoom lies in [minimum, maximum].
C9_ZoomWithinBounds == ZoomInBounds(zoom)

C9_Witness ==
    /\ last.op = "set_zoom" /\ ~ZoomInBounds(last.new_zoom) /\ last.new_zoom > MaxZoom
    /\ ZoomInBounds(zoom)

OutOfBoundsGesture == last.op = "ui" /\ last.zoomed /\ ~last.zoom_by_ok

\* C10: every zoom bounds violation is observable to the caller, on the
\* gesture path too: when handle_gestures applies a zoom gesture whose delta
\* takes the zoom out of the valid range, the caller gets the out-of-bounds
\* error.
C10_GestureViolationSurfaced == OutOfBoundsGesture => ~last.ok

ZoomChanged ==
    /\ \/ last.op \in {"zoom_in", "zoom_out", "set_zoom"}
       \/ last.op = "ui" /\ last.zoomed
    /\ zoom # last.pre_zoom

\* C11: fold before zoom.  On every path that changes the zoom (zoom_in,
\* zoom_out, set_zoom, the zoom gesture of handle_gestures with or without a
\* hover position), center_mode holds a zero pixel offset at the moment the
\* zoom value changes: no offset accumulated at the old zoom is read at the
\* new one.
C11_FoldBeforeZoom == ZoomChanged => last.zoom_offset = VZero

ZoomCall ==
    \/ last.op \in {"zoom_in", "zoom_out", "set_zoom"}
    \/ last.op = "ui" /\ last.zoomed /\ ~last.panned

\* C12: a zoom level change keeps Center in its variant.  After zoom_in,
\* zoom_out, set_zoom or the zoom gesture of handle_gestures, from every
\* variant, center_mode has the variant it had before, with the same
\* direction and amount.
C12_ZoomKeepsVariant ==
    ZoomCall =>
        /\ last.mid_center.tag = last.pre_center.tag
        /\ last.mid_center.direction = last.pre_center.direction
        /\ last.mid_center.amount = last.pre_center.amount

\* C13: once detached, the map stays detached until follow is requested.
\* Whatever call is made on a center_mode that is not MyPosition (a drag, its
\* release, an inertia step, a scroll pan, a zoom gesture, zoom_in, zoom_out,
\* set_zoom, center_at), center_mode is not MyPosition when handle_gestures
\* returns nor when the call returns, unless the call is follow_my_position.
C13_DetachedUntilFollow ==
    (last.op \notin {"new", "follow_my_position"}
     /\ last.pre_center.tag # "MyPosition") =>
        /\ last.mid_center.tag # "MyPosition"
        /\ center_mode.tag # "MyPosition"

C13_Witness ==
    /\ last.op = "ui" /\ last.pre_center.tag = "Inertia"
    /\ last.pre_center.amount <= 0
    /\ center_mode.tag = "Exact"

\* A frame whose response is dragged by the primary button, handled by the
\* drag branch of handle_gestures.
DragFrame ==
    /\ last.op = "ui" /\ last.inp.dragged
    /\ ~last.zoomed /\ ~last.panned

\* C14: from any variant, a frame in which the response is dragged makes
\* recalculate_drag set center_mode to Moving, with direction the drag delta
\* of the frame and pos the AdjustedPosition held before (base and offset
\* unchanged), or my_position with zero offset if center_mode was MyPosition;
\* the displayed position is the one displayed before.
C14_DragCapturesPosition ==
    DragFrame =>
        /\ last.mid_center =
               Moving(IF last.pre_center.tag = "MyPosition"
                      THEN AdjustedPosition(my_position, VZero)
                      ELSE last.pre_center.pos,
                      last.inp.drag_delta)
        /\ SamePosition(projection_type,
                        CenterPosition(projection_type, last.mid_center, my_position,
                                       zoom),
                        CenterPosition(projection_type, last.pre_center, my_position,
                                       last.pre_zoom),
                        zoom)

C14_Witness ==
    /\ DragFrame
    /\ last.pre_center.tag = "Inertia"
    /\ last.pre_center.pos.offset # VZero
    /\ last.inp.drag_delta # VZero
    /\ last.mid_center.tag = "Moving"
    /\ last.mid_center.pos = last.pre_center.pos

\* The AdjustedPosition a drag frame starts from (center.rs:36-38).
DragStart ==
    IF last.pre_center.tag = "MyPosition" THEN AdjustedPosition(my_position, VZero)
    ELSE last.pre_center.pos

\* C15: a drag shifts the stored position by pixel-offset accumulation only.
\* Every drag frame leaves the base Position it started from and adds the
\* frame's drag delta to the pixel offset, once; so consecutive drag frames
\* with deltas d1..dn from (base, off0) leave (base, off0 + d1 + ... + dn).
C15_DragAccumulatesOffset ==
    DragFrame =>
        /\ center_mode.tag = "Moving"
        /\ center_mode.pos.position = DragStart.position
        /\ center_mode.pos.offset = VAdd(DragStart.offset, last.inp.drag_delta)

\* The second of two consecutive drag frames that started from MyPosition:
\* the offset is d1 + d2.
C15_Witness ==
    /\ DragFrame
    /\ last.pre_center.tag = "Moving"
    /\ last.pre_center.direction # VZero /\ last.inp.drag_delta # VZero
    /\ last.pre_center.pos = AdjustedPosition(my_position, last.pre_center.direction)
    /\ center_mode.pos =
           AdjustedPosition(my_position,
                            VAdd(last.pre_center.direction, last.inp.drag_delta))

\* C16: on drag release while center_mode is Moving { pos, direction },
\* recalculate_drag produces Inertia with exactly that pos (base and offset)
\* and that direction, and amount 1.0.
C16_ReleaseCarriesMovement ==
    ReleaseFrame =>
        /\ last.mid_center.tag = "Inertia"
        /\ last.mid_center.pos = last.pre_center.pos
        /\ last.mid_center.direction = last.pre_center.direction
        /\ last.mid_center.amount = AmountStart

C16_Witness ==
    /\ ReleaseFrame
    /\ last.pre_center.direction # VZero
    /\ last.pre_center.pos.offset # VZero
    /\ last.mid_center =
           Inertia(last.pre_center.pos, last.pre_center.direction, AmountStart)

\* A frame whose update_movement finds center_mode in Inertia.
InertiaStep == last.op = "ui" /\ last.mid_center.tag = "Inertia"

\* direction * amount, in screen units.
Scaled(direction, amount) ==
    Vec(MulDiv(direction.x, amount, AmountDen), MulDiv(direction.y, amount, AmountDen))

\* C17: an update_movement step on Inertia { pos, direction, amount } with
\* amount > 0 stays in Inertia, adds direction * amount (the amount before
\* the decrement) to the pixel offset of pos, leaves the base position and
\* the direction as they are, and decreases the amount by 0.03.
C17_InertiaStep ==
    (InertiaStep /\ last.mid_center.amount > 0) =>
        /\ center_mode.tag = "Inertia"
        /\ center_mode.pos.position = last.mid_center.pos.position
        /\ center_mode.pos.offset =
               VAdd(last.mid_center.pos.offset,
                    Scaled(last.mid_center.direction, last.mid_center.amount))
        /\ center_mode.direction = last.mid_center.direction
        /\ center_mode.amount = last.mid_center.amount - AmountStep

C17_Witness ==
    /\ InertiaStep
    /\ last.mid_center.amount = AmountStart - 10 * AmountStep
    /\ last.mid_center.direction = Vec(2 * PxDen, -PxDen)
    /\ center_mode.tag = "Inertia"
    /\ center_mode.amount = AmountStart - 11 * AmountStep
    /\ center_mode.pos.offset =
           VAdd(last.mid_center.pos.offset, Vec(140, -70))

\* C18: an update_movement step on Inertia with amount <= 0 sets center_mode
\* to Exact holding the same AdjustedPosition (base and offset, no shift on
\* that step) and no direction; after the step center_mode is not an Inertia
\* with amount <= 0.
C18_InertiaEndsExact ==
    (InertiaStep /\ last.mid_center.amount <= 0) =>
        /\ center_mode = Exact(last.mid_center.pos)
        /\ center_mode.direction = VZero
        /\ ~(center_mode.tag = "Inertia" /\ center_mode.amount <= 0)

C18_Witness ==
    /\ InertiaStep
    /\ last.mid_center.amount <= 0
    /\ last.mid_center.direction # VZero
    /\ last.mid_center.pos.offset # VZero
    /\ center_mode.tag = "Exact"
    /\ center_mode.pos = last.mid_center.pos

\* C19: center_at(pos), in any variant (also during a drag or the inertia),
\* sets center_mode to Exact with base pos and zero pixel offset, without
\* direction or amount; zoom and projection type are what they were.
C19_CenterAtExact ==
    last.op = "center_at" =>
        /\ center_mode = Exact(AdjustedPosition(last.arg, VZero))
        /\ center_mode.pos.offset = VZero
        /\ center_mode.direction = VZero /\ center_mode.amount = 0
        /\ zoom = last.pre_zoom
        /\ projection_type = last.pre_projection_type

C19_Witness ==
    /\ last.op = "center_at"
    /\ last.pre_center.tag = "Inertia"
    /\ last.pre_center.pos.offset # VZero
    /\ last.pre_center.pos.position # last.arg
    /\ center_mode = Exact(AdjustedPosition(last.arg, VZero))

\* Zoom levels at which the displayed center is read.
ZoomSamples == {MinZoom, DefaultZoom - 1, zoom, MaxZoom}

\* C20: follow_my_position, in any variant, sets center_mode to MyPosition,
\* which holds no position; and as long as center_mode is MyPosition the
\* displayed center (global_position / local_position) is the my_position
\* supplied, whichever it is, at every zoom.
C20_FollowDisplaysMyPosition ==
    /\ last.op = "follow_my_position" => center_mode = MyPosition
    /\ center_mode.tag = "MyPosition" =>
           \A p \in Positions(projection_type) \cup {my_position}, z \in ZoomSamples :
               CenterPosition(projection_type, center_mode, p, z) = p

C20_Witness ==
    /\ last.op = "follow_my_position"
    /\ last.pre_center.tag = "Inertia"
    /\ last.pre_center.pos.offset # VZero
    /\ center_mode = MyPosition
    /\ CenterPosition(projection_type, center_mode, my_position, zoom) = my_position

\* project(base) minus offset, unprojected at a zoom in a projection mode.
DisplayedOf(pt, adj, z) ==
    IF pt = "Global"
    THEN global_bitmap_unproject(
             VSub(global_bitmap_project(adj.position, z), PxToBitmap(adj.offset, z)), z)
    ELSE local_bitmap_unproject(
             VSub(local_bitmap_project(adj.position, z), PxToBitmap(adj.offset, z)), z)

Detaching ==
    \/ last.op = "center_at"
    \/ last.op = "ui" /\ (last.inp.dragged \/ last.zoomed \/ last.panned)

\* C22: the initial state of the navigation state machine is following.  A
\* default MapMemory has center_mode = MyPosition, and center_mode remains
\* MyPosition, when handle_gestures returns and at the end of the frame or
\* call, until a drag, a scroll pan, a zoom gesture or center_at occurs.
C22_FollowsUntilDetached ==
    /\ last.op = "new" => center_mode = MyPosition
    /\ (last.pre_center = MyPosition /\ ~Detaching) =>
           /\ last.mid_center = MyPosition
           /\ center_mode = MyPosition

\* The release of the button over a map that follows: recalculate_drag
\* returns true and the map still follows.
C22_Witness ==
    /\ last.op = "ui" /\ last.inp.drag_stopped /\ last.changed
    /\ last.pre_center = MyPosition
    /\ ~Detaching
    /\ center_mode = MyPosition

\* A tile_id call that returned a TileId without integer overflow: every pair
\* of arguments but a display zoom below the zoom adjustment of the source.
TileReturned ==
    /\ last.op = "tile_id"
    /\ ZoomRound(zoom) >= TileZoomAdjustment(last.source_tile_size)

\* index = floor(v * 2^z), v in 1/NormDen: index * 2^-z <= v < (index + 1) * 2^-z.
FloorOfFraction(index, v, z) ==
    /\ 0 <= v - index * (NormDen \div 2^z)
    /\ v - index * (NormDen \div 2^z) < NormDen \div 2^z

\* C23: Position::tile_id(zoom, source_tile_size) returns, on each axis,
\* floor(mercator_normalized fraction * 2^z) with
\* z = zoom - log2(source_tile_size / 256), and reports z as the zoom of the
\* TileId, for every position whose normalized fraction is not negative (an
\* index is unsigned); Position (0, 0) at zoom 2 with a 256 px source gives
\* TileId { x: 2, y: 2, zoom: 2 }.
C23_TileIdFloorsFraction ==
    /\ (/\ TileReturned
        /\ mercator_normalized(last.arg).x >= 0
        /\ mercator_normalized(last.arg).y >= 0) =>
           /\ ~last.tile.panicked
           /\ last.tile.zoom =
                  ZoomRound(zoom) - Log2Floor(last.source_tile_size \div 256)
           /\ FloorOfFraction(last.tile.x, mercator_normalized(last.arg).x,
                              last.tile.zoom)
           /\ FloorOfFraction(last.tile.y, mercator_normalized(last.arg).y,
                              last.tile.zoom)
    /\ (/\ last.op = "tile_id" /\ last.arg = Vec(0, 0)
        /\ ZoomRound(zoom) = 2 /\ last.source_tile_size = 256) =>
           last.tile = TileId(2, 2, 2)

\* Position (0, 0) at zoom 2 with a 256 px source.
C23_Witness ==
    /\ last.op = "tile_id" /\ last.arg = Vec(0, 0)
    /\ zoom = 2 * ZoomDen /\ last.source_tile_size = 256
    /\ last.tile = TileId(2, 2, 2)

\* C24: tile indices are always inside the pyramid.  For every Position, also
\* one whose normalized fraction is outside [0, 1) (longitude exactly 180 or
\* beyond +/-180), the TileId that Position::tile_id returns has
\* 0 <= x < 2^zoom and 0 <= y < 2^zoom: the index is wrapped or clamped.
C24_TileInsidePyramid ==
    (TileReturned /\ ~last.tile.panicked) =>
        /\ 0 <= last.tile.x /\ last.tile.x < 2^last.tile.zoom
        /\ 0 <= last.tile.y /\ last.tile.y < 2^last.tile.zoom

\* C25: Position::tile_id is total over its input domain.  For every display
\* zoom of the valid range (0 included, as Map::ui passes it from
\* zoom.round()) and every power-of-two source tile size >= 256, the u8
\* subtraction zoom - log2(source_tile_size / 256) does not underflow and
\* 2^zoom does not overflow u32: the call returns a TileId, at the zoom
\* adjusted as integers are.
C25_TileIdTotal ==
    last.op = "tile_id" =>
        /\ ~last.tile.panicked
        /\ last.tile.zoom =
               ZoomRound(zoom) - TileZoomAdjustment(last.source_tile_size)
        /\ last.tile.zoom < 32

\* A Local position projected on the bitmap and unprojected at the zoom of the
\* memory.
LocalRoundTrip == last.op = "round_trip" /\ projection_type = "Local"

\* Two positions that project to the same place of the bitmap at a zoom, up
\* to one stored unit: what one rounding of the projection can move.
WithinRounding(pt, p, q, z) ==
    LET a == BitmapProject(pt, p, z)
        b == BitmapProject(pt, q, z)
    IN  Abs(a.x - b.x) <= 1 /\ Abs(a.y - b.y) <= 1

FoldOfFolded ==
    /\ last.op = "zero_offset"
    /\ HasAdjustedPosition(last.pre_center)
    /\ last.pre_center.pos.offset = VZero

\* C27: fold idempotence.  global_zero_offset / local_zero_offset at zoom z,
\* applied to an AdjustedPosition whose offset is zero already, leaves the
\* offset zero and the base Position unchanged within floating tolerance (the
\* rounding of one projection; without any loss in Local mode at a whole zoom
\* level), and the variant of Center as it is: folding twice at the same zoom
\* is folding once.
C27_FoldIdempotent ==
    FoldOfFolded =>
        /\ center_mode.pos.offset = VZero
        /\ WithinRounding(projection_type, center_mode.pos.position,
                          last.pre_center.pos.position, zoom)
        /\ center_mode.tag = last.pre_center.tag
        /\ center_mode.direction = last.pre_center.direction
        /\ center_mode.amount = last.pre_center.amount
        /\ (projection_type = "Local" /\ zoom % ZoomDen = 0) =>
               center_mode = last.pre_center

\* The second of two folds at the same zoom: the first one moved the base by
\* the offset, the second leaves it where it is.
C27_Witness ==
    /\ FoldOfFolded
    /\ projection_type = "Global"
    /\ last.pre_center.tag = "Inertia"
    /\ last.pre_center.pos.position # my_position
    /\ center_mode.pos = last.pre_center.pos

\* ------------------------------------------------ folding and the display

\* A fold applied to a center that holds an AdjustedPosition.
Folded ==
    /\ last.op = "zero_offset"
    /\ HasAdjustedPosition(last.pre_center)

\* C29: folding preserves the displayed position.  For every AdjustedPosition
\* a and zoom z, a' = zero_offset(a, z) has offset zero and
\* unadjusted_position(a', z) is unadjusted_position(a, z) (up to the rounding
\* of the round trip a' is put through); Center::global_zero_offset /
\* local_zero_offset keep the variant and its direction and amount, leave
\* MyPosition alone, and so never change the displayed center at the zoom they
\* fold at.
C29_FoldKeepsDisplayed ==
    /\ Folded =>
           /\ center_mode.pos.offset = VZero
           /\ WithinRounding(projection_type,
                             UnadjustedPosition(projection_type, center_mode.pos, zoom),
                             UnadjustedPosition(projection_type, last.pre_center.pos, zoom),
                             zoom)
           /\ center_mode.tag = last.pre_center.tag
           /\ center_mode.direction = last.pre_center.direction
           /\ center_mode.amount = last.pre_center.amount
    /\ (last.op = "zero_offset" /\ last.pre_center.tag = "MyPosition") =>
           center_mode = MyPosition

\* A fold in Global mode of a Moving center with an offset: the base moves, the
\* offset is gone.
C29_Witness ==
    /\ Folded
    /\ projection_type = "Global"
    /\ last.pre_center.tag = "Moving"
    /\ last.pre_center.pos.offset # VZero
    /\ center_mode.pos.position # last.pre_center.pos.position
    /\ center_mode.pos.offset = VZero

\* ------------------------------------------------ zooming and dragging

\* C30: zooming and dragging are exclusive within a frame.  In a frame in
\* which handle_gestures applies a zoom gesture, recalculate_drag is not run
\* (no Moving or Inertia is created or released: the variant is the one the
\* frame started with, or Exact), and the update_movement of the same frame
\* applies no drag or inertia shift to the stored position: ui() leaves the
\* AdjustedPosition handle_gestures left, whatever the variant at the start of
\* the frame.
C30_ZoomExcludesDrag ==
    (last.op = "ui" /\ last.zoomed) =>
        /\ last.mid_center.tag \in {last.pre_center.tag, "Exact"}
        /\ center_mode.pos = last.mid_center.pos

\* ------------------------------------------------------- scroll panning

\* The frame of the last call panned by scrolling: the pointer is over the
\* viewport, panning is enabled (a touch device, or zoom_with_ctrl) and the
\* scroll delta is not zero.
PanFrame ==
    /\ last.op = "ui"
    /\ last.inp.contains_pointer
    /\ (last.inp.any_touches \/ last.cfg.zoom_with_ctrl)
    /\ last.inp.scroll_delta # VZero

\* What the zoom / drag branch of that frame left, from which the pan reads
\* the displayed position.
BeforePan ==
    ZoomOrDrag(projection_type, last.pre_center, last.pre_zoom, my_position,
               last.cfg, last.inp,
               ScrollZoomDelta(last.cfg, last.inp,
                               DoubleClickZoomDelta(last.cfg, last.inp)))

\* C31: scroll panning detaches and stops any motion.  In a frame where the
\* pointer is over the viewport, panning is enabled and the scroll delta is
\* non-zero, handle_gestures ends with Center == Exact whose base is the
\* position displayed until then (the one the center shows when the pan is
\* reached; in a frame without a zoom gesture, the one displayed when the
\* frame began, up to the rounding of one projection where a drag of the same
\* frame put my_position into an AdjustedPosition) and whose pixel offset is
\* the scroll delta, whatever the
\* starting variant: MyPosition is detached, a Moving just set by
\* recalculate_drag in the same frame and an Inertia lose direction and
\* amount.
C31_ScrollPanStopsMotion ==
    PanFrame =>
        /\ last.panned
        /\ last.mid_center =
               Exact(AdjustedPosition(
                   CenterPosition(projection_type, BeforePan.center_mode,
                                  my_position, BeforePan.zoom),
                   last.inp.scroll_delta))
        /\ ~last.zoomed =>
               WithinRounding(projection_type, last.mid_center.pos.position,
                              CenterPosition(projection_type, last.pre_center,
                                             my_position, last.pre_zoom),
                              zoom)

\* The map was coasting with an offset when a frame brought both a drag and a
\* scroll: recalculate_drag made it Moving, the pan left Exact at the position
\* displayed, offset by the scroll delta.
C31_Witness ==
    /\ PanFrame
    /\ last.pre_center.tag = "Inertia"
    /\ last.pre_center.pos.offset # VZero
    /\ last.inp.dragged
    /\ ~last.zoomed
    /\ last.mid_center.tag = "Exact"
    /\ last.mid_center.pos.offset = last.inp.scroll_delta
    /\ last.mid_center.pos.position # last.pre_center.pos.position

\* ------------------------------------------------- a release out of place

\* The frame of the last call reported the release of a drag (and no drag, no
\* zoom gesture, no scroll) to a center that was not Moving.
StrayRelease ==
    /\ last.op = "ui" /\ last.inp.drag_stopped /\ ~last.inp.dragged
    /\ last.cfg.drag_gesture_enabled
    /\ ~last.zoomed /\ ~last.panned
    /\ last.pre_center.tag # "Moving"

\* C32: a drag release received while Center is not Moving (MyPosition, Exact
\* or Inertia) leaves Center completely unchanged: recalculate_drag starts no
\* inertia, does not refill the amount of a coasting map and does not detach
\* a following map; it still returns true, which ui() reports as a change.
C32_StrayReleaseKeepsCenter ==
    StrayRelease =>
        /\ last.mid_center = last.pre_center
        /\ last.changed
        /\ last.moved
        /\ last.pre_center.tag \in {"MyPosition", "Exact"} =>
               center_mode = last.pre_center

\* A second release while the map coasts: handle_gestures leaves the Inertia
\* with the amount it had, below 1.0.
C32_Witness ==
    /\ StrayRelease
    /\ last.pre_center.tag = "Inertia"
    /\ last.pre_center.amount < AmountStart
    /\ last.pre_center.amount > 0
    /\ last.mid_center = last.pre_center
    /\ last.changed

\* --------------------------------------------- the map left to coast
\*
\* A third state machine over the same variables: the memory starts in any
\* Inertia state a release and the frames after it leave (amounts from 1.0
\* down to the last positive one, 0.01), and the only step is a frame without
\* input.
\* update_movement returns true as long as center_mode is Inertia, ui() then
\* calls request_repaint (global_map.rs:210-215, local_map.rs:183-188), and
\* egui runs another frame: the frame is taken whenever it changes something.

CoastAmounts ==
    {AmountStart - k * AmountStep :
         k \in {0, CoastSteps \div 3, 2 * (CoastSteps \div 3), CoastSteps - 2}}

CoastInit ==
    /\ projection_type \in {"Global", "Local"}
    /\ zoom \in {DefaultZoom, MaxZoom - 1}
    /\ my_position \in MyPositions(projection_type)
    /\ center_mode \in
           {Inertia(AdjustedPosition(my_position, o), d, a) :
                o \in UnitOffsets, d \in DragDeltas, a \in CoastAmounts}
    /\ last = Call("new")
    /\ nops = 0

\* Widget::ui in a frame in which egui reports nothing: handle_gestures, then
\* update_movement, as in Frame, the two results computed before the memory
\* is assigned.
CoastFrame ==
    /\ \E hg \in {handle_gestures(projection_type, center_mode, zoom, my_position,
                                  DefaultConfig, IdleInput)} :
          \E um \in {update_movement(hg.center_mode)} :
              FrameEnd(DefaultConfig, IdleInput, hg, um)
    /\ UNCHANGED <<projection_type, my_position, nops>>

Coast == CoastInit /\ [][CoastFrame]_vars /\ WF_vars(CoastFrame)

\* C28: inertia always stops.  From any Inertia state, if frames keep being
\* processed (update_movement each frame) with no further user input,
\* center_mode eventually becomes Exact, and from then on it stays Exact with
\* its position unchanged.
C28_InertiaStops ==
    /\ <>[](center_mode.tag = "Exact")
    /\ [][center_mode.tag = "Exact" => center_mode' = center_mode]_vars

\* A frame after the map came to rest: it finds Exact, leaves it as it is and
\* reports no movement.
C28_Witness ==
    /\ last.op = "ui"
    /\ last.pre_center.tag = "Exact"
    /\ last.pre_center.pos.offset # VZero
    /\ ~last.moved
    /\ center_mode = last.pre_center

====
